---------------------------- MODULE Spec2Model ----------------------------
(***************************************************************************)
(* A model of the notebook affine_reg_oasis.ipynb: the conversion of the   *)
(* known random affines of a sample into the "perfect transform" in monai  *)
(* and in torch coordinates, the AffineNet module and its training loop,   *)
(* and the checkpoint save / load cells.                                   *)
(*                                                                         *)
(* Tensor entries are exact rationals <<n, d>> (d > 0, lowest terms): the  *)
(* matrix algebra of the notebook is modelled over Q, not over float32.    *)
(* Python indices are 0-based, TLA+ sequences 1-based: Python's x[k] is    *)
(* x[k+1] here.                                                            *)
(***************************************************************************)
EXTENDS Integers, Sequences, FiniteSets, TLC

VARIABLES
    S,            \* the side of the cubic volumes (cell 74ab68b8)
    d,            \* the sample drawn by random.choice(dataset_pairs_train)
    theta_monai,  \* get_perfect_transform_monai_coords(d)
    theta_torch,  \* get_perfect_transform_torch_coords(d), 4x4
    vox,          \* the output voxel observed, <<d, h, w>>
    src_monai,    \* where monai's Affine samples the moving volume for vox
    src_torch,    \* where affine_grid / grid_sample samples it for vox
    cpc,          \* position in the test cell 483644ec
    model,        \* the AffineNet in `model`: its fc_loc parameters and sizes
    opt_steps,    \* opt.step() calls since the model was constructed
    batch,        \* the collated batch, a sequence of samples
    xs_shape,     \* shape of the localization output
    xs,           \* the flattened localization output of each sample
    theta,        \* the predicted theta, (B, 3, 4)
    warped,       \* the second output of forward, per sample
    perfect_theta,\* the regression target, (B, 3, 4)
    loss,         \* the loss of the iteration
    npc,          \* position in the training iteration
    files,        \* the checkpoint files of the working directory
    run_id,       \* the notebook global run_id
    save_path,    \* the notebook global save_path
    load_path,    \* the notebook global load_path
    last          \* what the last run of the save or load cell did

coordVars == <<d, theta_monai, theta_torch, vox, src_monai, src_torch, cpc>>
netVars == <<model, opt_steps, batch, xs_shape, xs, theta, warped, perfect_theta, loss, npc>>
ckptVars == <<files, run_id, save_path, load_path, last>>
vars == <<S, coordVars, netVars, ckptVars>>

None == "none"

\* `model` before AffineNet() has returned
NoModel == [made |-> FALSE]

-----------------------------------------------------------------------------
(* Exact rational arithmetic *)

Abs(n) == IF n < 0 THEN -n ELSE n

RECURSIVE GCD(_, _)
GCD(a, b) == IF b = 0 THEN a ELSE GCD(b, a % b)

\* the rational n/m in lowest terms with a positive denominator (m # 0)
Norm(n, m) ==
    LET g == GCD(Abs(n), Abs(m))
        s == IF m < 0 THEN -1 ELSE 1
    IN  <<(s * n) \div g, (s * m) \div g>>

R(n) == <<n, 1>>
Q(n, m) == Norm(n, m)
RNeg(a) == <<-a[1], a[2]>>
\* sums over the least common denominator, products cancelled crosswise
\* first, so that intermediate integers stay small
RAdd(a, b) ==
    LET g == GCD(a[2], b[2])
    IN  Norm(a[1] * (b[2] \div g) + b[1] * (a[2] \div g), (a[2] \div g) * b[2])
RSub(a, b) == RAdd(a, RNeg(b))
RMul(a, b) ==
    LET x == Norm(a[1], b[2])
        y == Norm(b[1], a[2])
    IN  <<x[1] * y[1], x[2] * y[2]>>
RInv(a) == Norm(a[2], a[1])
RDiv(a, b) == RMul(a, RInv(b))
RLeq(a, b) == a[1] * b[2] <= b[1] * a[2]
RZero == R(0)
ROne == R(1)

RECURSIVE RSum(_)
RSum(s) == IF s = <<>> THEN RZero ELSE RAdd(s[1], RSum(Tail(s)))

-----------------------------------------------------------------------------
(* Matrices: a matrix is a sequence of rows, a row a sequence of rationals *)

\* the sequence <<F(1), ..., F(n)>>, n <= 4, built as a tuple
MkSeq(F(_), n) ==
    CASE n = 0 -> <<>>
      [] n = 1 -> <<F(1)>>
      [] n = 2 -> <<F(1), F(2)>>
      [] n = 3 -> <<F(1), F(2), F(3)>>
      [] n = 4 -> <<F(1), F(2), F(3), F(4)>>

Rows(A) == Len(A)
Cols(A) == Len(A[1])

\* the inner product of row i of A and column j of B
Dot(A, B, i, j) == RSum(MkSeq(LAMBDA k : RMul(A[i][k], B[k][j]), Cols(A)))

\* torch.matmul of two matrices
MatMul(A, B) ==
    MkSeq(LAMBDA i : MkSeq(LAMBDA j : Dot(A, B, i, j), Cols(B)), Rows(A))

\* a matrix applied to a column vector
MatVec(A, v) ==
    MkSeq(LAMBDA i : RSum(MkSeq(LAMBDA k : RMul(A[i][k], v[k]), Cols(A))), Rows(A))

Eye(n) == MkSeq(LAMBDA i : MkSeq(LAMBDA j : IF i = j THEN ROne ELSE RZero, n), n)

Skip(k, i) == IF k < i THEN k ELSE k + 1
Minor(A, i, j) ==
    MkSeq(LAMBDA r : MkSeq(LAMBDA c : A[Skip(r, i)][Skip(c, j)], Cols(A) - 1),
          Rows(A) - 1)

RECURSIVE Det(_)
Det(A) ==
    IF Rows(A) = 1 THEN A[1][1]
    ELSE RSum(MkSeq(LAMBDA j :
                      LET t == RMul(A[1][j], Det(Minor(A, 1, j)))
                      IN  IF j % 2 = 1 THEN t ELSE RNeg(t),
                    Cols(A)))

Cofactor(A, i, j) ==
    LET m == Det(Minor(A, i, j))
    IN  IF (i + j) % 2 = 0 THEN m ELSE RNeg(m)

Invertible(A) == Det(A) # RZero

\* torch.linalg.inv: the inverse of a square invertible matrix
Inv(A) ==
    LET dt == Det(A)
    IN  MkSeq(LAMBDA i : MkSeq(LAMBDA j : RDiv(Cofactor(A, j, i), dt), Cols(A)),
              Rows(A))

SolveSwapped(A, B) == MatMul(Inv(B), A)
\* torch.linalg.solve(A, B): the X with A X = B
Solve(A, B) == MatMul(Inv(A), B)

-----------------------------------------------------------------------------
(* The data pipeline: RandAffineD on 'fixed' and on 'moving' *)

NotebookS == 64

\* monai create_rotate about the first spatial axis, angle with cosine c, sine s
RotateAbout1(c, s) ==
    << <<ROne,  RZero, RZero,   RZero>>,
       <<RZero, c,     RNeg(s), RZero>>,
       <<RZero, s,     c,       RZero>>,
       <<RZero, RZero, RZero,   ROne>> >>

\* monai create_translate
Translate(t) ==
    << <<ROne,  RZero, RZero, t[1]>>,
       <<RZero, ROne,  RZero, t[2]>>,
       <<RZero, RZero, ROne,  t[3]>>,
       <<RZero, RZero, RZero, ROne>> >>

\* monai create_scale
Scale(f) ==
    << <<f[1],  RZero, RZero, RZero>>,
       <<RZero, f[2],  RZero, RZero>>,
       <<RZero, RZero, f[3],  RZero>>,
       <<RZero, RZero, RZero, ROne>> >>

\* rotate_range a*pi/2 = 27 degrees: no rotation, or the angle with
\* cosine 12/13 and sine 5/13 (22.6 degrees)
RotateDraws == { RotateAbout1(ROne, RZero), RotateAbout1(Q(12, 13), Q(5, 13)) }

\* translate_range a*S/16 = 0.01875 S voxels: offsets of S/64 voxels
TranslateDraws(side) ==
    LET t == Q(side, 64)
    IN  { Translate(<<RZero, RZero, RZero>>),
          Translate(<<t, RZero, RZero>>),
          Translate(<<RZero, RNeg(t), t>>) }

\* scale_range a*0.2 = 0.06: factors 1 + s with |s| <= 0.06
ScaleDraws == { Scale(<<ROne, ROne, ROne>>), Scale(<<Q(21, 20), ROne, Q(19, 20)>>) }

\* the affine RandAffine draws and records: rotate @ shear @ translate @ scale
\* with shear_range 0
RandAffineDraws(side) ==
    { MatMul(r, MatMul(t, s)) : r \in RotateDraws, t \in TranslateDraws(side),
                                s \in ScaleDraws }

\* the record an invertible dictionary transform pushes on <key>_transforms
TransformRecord(class, extra_info) == [class |-> class, extra_info |-> extra_info]

\* <key>_transforms after the pipeline: the records of the transforms
\* applied to the key, RandAffined last
AppliedTransforms(affine) ==
    << TransformRecord("Transposed", [indices |-> <<2, 1, 0>>]),
       TransformRecord("Resized", [mode |-> "area"]),
       TransformRecord("RandAffined", [affine |-> affine]) >>

keys_reversed == <<"moving", "fixed">>
keys == <<"fixed", "moving">>

\* a one-channel volume (AddChannelD): the image at path, resampled by affine
Volume(path, affine) == << [image |-> path, affine |-> affine] >>

\* ConcatItemsD(keys=ks, name='fm', dim=0): the channels of dd[k], k in ks
RECURSIVE ConcatItems(_, _)
ConcatItems(dd, ks) ==
    IF ks = <<>> THEN <<>> ELSE dd[ks[1]] \o ConcatItems(dd, Tail(ks))

\* the pipeline's output for the pair {'fixed': img0, 'moving': img1} when
\* the two RandAffineD draw phi1 and phi2
Sample(img0, img1, phi1, phi2) ==
    LET dd == [fixed |-> Volume(img0, phi1),
               moving |-> Volume(img1, phi2),
               fixed_transforms |-> AppliedTransforms(phi1),
               moving_transforms |-> AppliedTransforms(phi2)]
    IN  [fixed |-> dd.fixed, moving |-> dd.moving,
         fixed_transforms |-> dd.fixed_transforms,
         moving_transforms |-> dd.moving_transforms,
         fm |-> ConcatItems(dd, keys)]

ImagePaths == {"OAS1_0001", "OAS1_0002"}

\* the samples of one pair of images under every pair of draws
Samples(side) ==
    { Sample("OAS1_0001", "OAS1_0002", phi1, phi2) :
        phi1 \in RandAffineDraws(side), phi2 \in RandAffineDraws(side) }

-----------------------------------------------------------------------------
(* The perfect transform of a sample *)

\* [t for t in ts if t['class'] == cls][0]
RECURSIVE FirstOfClass(_, _)
FirstOfClass(ts, cls) ==
    IF ts[1].class = cls THEN ts[1] ELSE FirstOfClass(Tail(ts), cls)

RecordedAffine(ts) == FirstOfClass(ts, "RandAffined").extra_info.affine

get_perfect_transform_monai_coords_swapped(dd) ==
    Solve(RecordedAffine(dd.fixed_transforms), RecordedAffine(dd.moving_transforms))
get_perfect_transform_monai_coords(dd) ==
    LET phi1 == RecordedAffine(dd.fixed_transforms)
        phi2 == RecordedAffine(dd.moving_transforms)
    IN  Solve(phi2, phi1)

N_bad_row(side) ==
    LET c == Q(2, side - 1)
    IN  << <<RZero, RZero, c,     RZero>>,
           <<RZero, c,     RZero, RZero>>,
           <<c,     RZero, RZero, RZero>>,
           <<R(-1), R(-1), R(-1), ROne>> >>
\* N: monai's (d, h, w) voxel offsets to torch's (x, y, z), scaled by 2/(S-1)
N(side) ==
    LET c == Q(2, side - 1)
    IN  << <<RZero, RZero, c,     RZero>>,
           <<RZero, c,     RZero, RZero>>,
           <<c,     RZero, RZero, RZero>>,
           <<RZero, RZero, RZero, ROne>> >>

get_perfect_transform_torch_coords(side, dd) ==
    LET th == get_perfect_transform_monai_coords(dd)
    IN  MatMul(N(side), MatMul(th, Inv(N(side))))

\* m[:3]: the matrix without its last row
DropLastRow(m) == SubSeq(m, 1, Len(m) - 1)

-----------------------------------------------------------------------------
(* Resampling: the position of the source volume that an output voxel      *)
(* samples.  A voxel is its index triple <<d, h, w>>, 0-based as in        *)
(* Python; a position is a triple of rationals in index units.             *)

Centre(side) == Q(side - 1, 2)
Homog(v) == <<v[1], v[2], v[3], ROne>>

\* monai create_grid: the output voxel's coordinates, in [-(S-1)/2, (S-1)/2]
MonaiGrid(side, v) ==
    Homog(MkSeq(LAMBDA k : RSub(R(v[k]), Centre(side)), 3))

\* monai.transforms.Affine(affine=th)(img): AffineGrid multiplies the grid
\* by th; Resample scales it by 2/(S-1), reverses the axes and calls
\* grid_sample with align_corners=True, which maps g back to (g+1)(S-1)/2
MonaiAffineSource(side, th, v) ==
    LET g == MatVec(th, MonaiGrid(side, v))
        nrm == MkSeq(LAMBDA k : RDiv(RMul(R(2), g[k]), R(side - 1)), 3)
    IN  MkSeq(LAMBDA k : RMul(RDiv(RAdd(nrm[k], ROne), R(2)), R(side - 1)), 3)

\* affine_grid's base coordinate of index i, align_corners=False: (2i+1)/S - 1
TorchBase(side, i) == RSub(Q(2 * i + 1, side), ROne)

\* grid_sample's index of the normalized coordinate g, align_corners=False
TorchUnnormalize(side, g) == RDiv(RSub(RMul(RAdd(g, ROne), R(side)), ROne), R(2))

\* affine_grid(theta3x4, size, align_corners=False) then grid_sample(...,
\* align_corners=False): the grid's x runs along the last axis (w), z along
\* the first (d)
TorchAffineSource(side, theta3x4, v) ==
    LET base == << TorchBase(side, v[3]), TorchBase(side, v[2]),
                   TorchBase(side, v[1]), ROne >>
        g == MatVec(theta3x4, base)
    IN  << TorchUnnormalize(side, g[3]), TorchUnnormalize(side, g[2]),
           TorchUnnormalize(side, g[1]) >>

\* the position of the underlying volume I that img = I o phi shows at the
\* (fractional) index position pos: RandAffine resamples I on phi @ grid
PullBack(side, phi, pos) ==
    LET g == MatVec(phi, Homog(MkSeq(LAMBDA k : RSub(pos[k], Centre(side)), 3)))
    IN  MkSeq(LAMBDA k : RAdd(g[k], Centre(side)), 3)

-----------------------------------------------------------------------------
(* Cell 483644ec: the perfect transform, tried in both conventions *)

SmallSide == 8
CoordSides == {SmallSide, NotebookS}

\* the voxels observed: corners, centre and faces of the volume
VoxIdx(side) == {0, side \div 2, side - 1}
Voxels(side) == { <<a, b, c>> : a \in VoxIdx(side), b \in VoxIdx(side), c \in VoxIdx(side) }

Undefined == "undefined"
NoFile == [exists |-> FALSE]
CheckpointPaths == {"model_001.pth", "model_002.pth"}
NoRun == [cell |-> "none"]

\* the save and load cells have not been run
CkptIdle ==
    /\ files = [f \in CheckpointPaths |-> NoFile]
    /\ run_id = Undefined
    /\ save_path = Undefined
    /\ load_path = Undefined
    /\ last = NoRun

\* no model has been made yet
NetIdle ==
    /\ model = NoModel
    /\ opt_steps = 0
    /\ batch = None
    /\ xs_shape = None
    /\ xs = None
    /\ theta = None
    /\ warped = None
    /\ perfect_theta = None
    /\ loss = None
    /\ npc = "idle"

InitCoords ==
    /\ S \in CoordSides
    /\ d = None
    /\ theta_monai = None
    /\ theta_torch = None
    /\ vox = None
    /\ src_monai = None
    /\ src_torch = None
    /\ cpc = "start"
    /\ NetIdle
    /\ CkptIdle

\* d = random.choice(dataset_pairs_train)
DrawSample ==
    /\ cpc = "start"
    /\ d' \in Samples(S)
    /\ cpc' = "drawn"
    /\ UNCHANGED <<S, theta_monai, theta_torch, vox, src_monai, src_torch>>
    /\ UNCHANGED <<netVars, ckptVars>>

\* theta_monai = ...; theta_torch = ...
PerfectTransforms ==
    /\ cpc = "drawn"
    /\ theta_monai' = get_perfect_transform_monai_coords(d)
    /\ theta_torch' = get_perfect_transform_torch_coords(S, d)
    /\ cpc' = "perfect"
    /\ UNCHANGED <<S, d, vox, src_monai, src_torch>>
    /\ UNCHANGED <<netVars, ckptVars>>

\* perfectly_transformed_moving = Affine(affine=theta_monai)(d['moving'])
WarpMonai ==
    /\ cpc = "perfect"
    /\ \E v \in Voxels(S) :
          /\ vox' = v
          /\ src_monai' = MonaiAffineSource(S, theta_monai, v)
    /\ cpc' = "warped_monai"
    /\ UNCHANGED <<S, d, theta_monai, theta_torch, src_torch>>
    /\ UNCHANGED <<netVars, ckptVars>>

\* grid = affine_grid(theta_torch[:, :3], ...); x = grid_sample(x[:, [1]], grid)
WarpTorch ==
    /\ cpc = "warped_monai"
    /\ src_torch' = TorchAffineSource(S, DropLastRow(theta_torch), vox)
    /\ cpc' = "warped_torch"
    /\ UNCHANGED <<S, d, theta_monai, theta_torch, vox, src_monai>>
    /\ UNCHANGED <<netVars, ckptVars>>

\* the cell is run again
RerunCell ==
    /\ cpc = "warped_torch"
    /\ d' = None
    /\ theta_monai' = None
    /\ theta_torch' = None
    /\ vox' = None
    /\ src_monai' = None
    /\ src_torch' = None
    /\ cpc' = "start"
    /\ UNCHANGED <<S, netVars, ckptVars>>

NextCoords ==
    \/ DrawSample
    \/ PerfectTransforms
    \/ WarpMonai
    \/ WarpTorch
    \/ RerunCell

SpecCoords == InitCoords /\ [][NextCoords]_vars

phi1_of(dd) == RecordedAffine(dd.fixed_transforms)
phi2_of(dd) == RecordedAffine(dd.moving_transforms)
VoxPos(v) == <<R(v[1]), R(v[2]), R(v[3])>>
HomogRow == <<RZero, RZero, RZero, ROne>>

\* C1: the monai-coordinate perfect transform X satisfies phi2 X = phi1 with
\* phi2 invertible (so X is the only such matrix), it is the identity when
\* phi1 = phi2, and moving = I o phi2 warped by X shows, at every observed
\* voxel, the position of I that fixed = I o phi1 shows there.
C1_PerfectMonai ==
    cpc \in {"perfect", "warped_monai", "warped_torch"} =>
        /\ Invertible(phi2_of(d))
        /\ MatMul(phi2_of(d), theta_monai) = phi1_of(d)
        /\ (phi1_of(d) = phi2_of(d) => theta_monai = Eye(4))
        /\ cpc # "perfect" =>
              PullBack(S, phi2_of(d), src_monai) = PullBack(S, phi1_of(d), VoxPos(vox))

C1_Witness ==
    /\ cpc = "warped_monai"
    /\ phi1_of(d) # phi2_of(d)
    /\ phi2_of(d) # Eye(4)
    /\ theta_monai[1][4] # RZero
    /\ src_monai # VoxPos(vox)

\* C2: the torch-coordinate perfect transform, applied by affine_grid and
\* grid_sample with align_corners=False, samples for every output voxel the
\* same source position as monai's Affine does with the monai-coordinate
\* perfect transform.
C2_TorchWarpEqualsMonaiWarp ==
    cpc = "warped_torch" => src_torch = src_monai

\* C6: with phi1 and phi2 homogeneous affines, the torch-coordinate perfect
\* transform has last row 0, 0, 0, 1.
C6_LastRowHomogeneous ==
    (/\ cpc \in {"perfect", "warped_monai", "warped_torch"}
     /\ phi1_of(d)[4] = HomogRow
     /\ phi2_of(d)[4] = HomogRow) => theta_torch[4] = HomogRow

C6_Witness ==
    /\ cpc = "perfect"
    /\ phi1_of(d)[4] = HomogRow
    /\ phi2_of(d)[4] = HomogRow
    /\ DropLastRow(theta_torch) # DropLastRow(Eye(4))
    /\ theta_torch[1][4] # RZero

-----------------------------------------------------------------------------
(* AffineNet *)

loc_C1 == 8
loc_C2 == 16
loc_C3 == 32

\* the number of localization features whose activations and fc_loc columns
\* are followed; the remaining features are taken to be inactive (0)
FeatLen == 2

\* the learning rate is 1 / LrDen
LrDen == 4

\* output size of an unpadded, stride 1 convolution of kernel k; the layer
\* raises when this is below 1
Conv3dOut(n, k) == n - k + 1

MaxPool3dCeilOut(n) == (n - 1) \div 2 + 1
\* output size of MaxPool3d(2, stride=2): floor((n - 2) / 2) + 1; the layer
\* raises when this is below 1
MaxPool3dOut(n) == (n - 2) \div 2 + 1

\* one spatial size after each layer of self.localization that changes it
\* (BatchNorm3d, Dropout and PReLU keep the shape)
LocalizationSizes(n) ==
    LET a1 == Conv3dOut(n, 5)
        a2 == MaxPool3dOut(a1)
        a3 == Conv3dOut(a2, 3)
        a4 == MaxPool3dOut(a3)
        a5 == Conv3dOut(a4, 3)
    IN  <<a1, a2, a3, a4, a5>>

\* no layer raises on a spatial size n
LayersAccept(n) == \A k \in 1..5 : LocalizationSizes(n)[k] >= 1

\* shape of self.localization(x) for x of shape (B, 2, n1, n2, n3)
LocalizationShape(shape) ==
    <<shape[1], loc_C3, LocalizationSizes(shape[3])[5],
      LocalizationSizes(shape[4])[5], LocalizationSizes(shape[5])[5]>>

\* self.S0
S0Of(side) == ((side - 4) \div 2 - 2) \div 2 - 2

Flat12(F(_)) ==
    <<F(1), F(2), F(3), F(4), F(5), F(6), F(7), F(8), F(9), F(10), F(11), F(12)>>

FreshWeightNotZeroed == Flat12(LAMBDA i : MkSeq(LAMBDA j : ROne, FeatLen))
\* self.fc_loc[-1].weight.data.zero_()
FreshWeight == Flat12(LAMBDA i : MkSeq(LAMBDA j : RZero, FeatLen))

\* self.fc_loc[-1].bias.data.copy_(...)
FreshBias ==
    << ROne, RZero, RZero, RZero,  RZero, ROne, RZero, RZero,
       RZero, RZero, ROne, RZero >>

\* AffineNet(); torch.nn.Linear raises on a negative size and no model is made
AffineNet(side) ==
    LET s0 == S0Of(side)
        inF == loc_C3 * s0 * s0 * s0
    IN  IF inF < 0 THEN NoModel
        ELSE [made |-> TRUE, S0 |-> s0, in_features |-> inF,
              weight |-> FreshWeight, bias |-> FreshBias]

\* self.fc_loc(x) for one flattened sample
Linear(net, x) ==
    Flat12(LAMBDA i :
        RAdd(RSum(MkSeq(LAMBDA j : RMul(net.weight[i][j], x[j]), FeatLen)),
             net.bias[i]))

\* v.view(3, 4) of 12 entries, row-major
View34(flat) == MkSeq(LAMBDA r : MkSeq(LAMBDA c : flat[(r - 1) * 4 + c], 4), 3)

\* x[[i0, i1, ...]] along the channel axis, Python indices
SelectChannels(x, idxs) == MkSeq(LAMBDA k : x[idxs[k] + 1], Len(idxs))

\* the channels forward hands to grid_sample: x[:, [1]]
SampledChannels(fm) == SelectChannels(fm, <<1>>)

\* the activations a sample's flattened localization output may take on the
\* followed features
FeatureDraws ==
    { MkSeq(LAMBDA j : RZero, FeatLen), MkSeq(LAMBDA j : R(j), FeatLen) }

-----------------------------------------------------------------------------
(* The training loop, cell 42018f7a *)

MaxSide == 21
MaxBatch == 2
MaxSteps == 1

NetSides == (1..MaxSide) \cup {NotebookS}

\* the samples the loader may put in a batch
TrainSamples(side) ==
    LET I4 == Eye(4)
        T == Translate(<<Q(side, 64), RZero, RZero>>)
    IN  { Sample("OAS1_0001", "OAS1_0001", I4, I4),
          Sample("OAS1_0001", "OAS1_0002", T, I4) }

Batches(side) ==
    UNION { [1..B -> TrainSamples(side)] : B \in 1..MaxBatch }

\* (theta - perfect_theta)**2, one entry
SquaredDifference(a, b) == RMul(RSub(a, b), RSub(a, b))
Difference(a, b) == RSub(a, b)
SquaredError(a, b) == SquaredDifference(a, b)

\* Tensor.sum() of the elementwise error of two (B, 3, 4) tensors
SumError(th, pf) ==
    RSum(MkSeq(LAMBDA b :
           RSum(MkSeq(LAMBDA r :
                  RSum(MkSeq(LAMBDA c : SquaredError(th[b][r][c], pf[b][r][c]), 4)),
                3)),
         Len(th)))

Sign(a) == IF a[1] > 0 THEN ROne ELSE IF a[1] < 0 THEN R(-1) ELSE RZero
LR == Q(1, LrDen)

\* d loss / d theta[b][r][c]
GradTheta(th, pf, b, i) ==
    LET r == ((i - 1) \div 4) + 1
        c == ((i - 1) % 4) + 1
    IN  RMul(R(2), RSub(th[b][r][c], pf[b][r][c]))

\* loss.backward() on fc_loc
GradBias(th, pf, i) == RSum(MkSeq(LAMBDA b : GradTheta(th, pf, b, i), Len(th)))
GradWeight(th, pf, x, i, j) ==
    RSum(MkSeq(LAMBDA b : RMul(GradTheta(th, pf, b, i), x[b][j]), Len(th)))

\* opt.step(): Adam moves each parameter by about lr against its gradient;
\* modelled as lr * sign(gradient)
Stepped(net, th, pf, x) ==
    [net EXCEPT
       !.bias = Flat12(LAMBDA i : RSub(net.bias[i], RMul(LR, Sign(GradBias(th, pf, i))))),
       !.weight = Flat12(LAMBDA i : MkSeq(LAMBDA j :
                     RSub(net.weight[i][j], RMul(LR, Sign(GradWeight(th, pf, x, i, j)))),
                     FeatLen))]

CoordsIdle ==
    /\ d = None
    /\ theta_monai = None
    /\ theta_torch = None
    /\ vox = None
    /\ src_monai = None
    /\ src_torch = None
    /\ cpc = "start"

InitNet ==
    /\ S \in NetSides
    /\ CoordsIdle
    /\ NetIdle
    /\ CkptIdle

\* model = make_affine_net().to(device)
MakeNet ==
    /\ npc = "idle"
    /\ LET net == AffineNet(S)
       IN  IF ~ net.made
           THEN /\ npc' = "error"
                /\ UNCHANGED model
           ELSE /\ model' = net
                /\ npc' = "idle"
    /\ opt_steps' = 0
    /\ UNCHANGED <<S, coordVars, ckptVars, batch, xs_shape, xs, theta, warped, perfect_theta, loss>>

\* for batch in dataloader_pairs_train
LoadBatch ==
    /\ npc = "idle"
    /\ model.made
    /\ batch' \in Batches(S)
    /\ npc' = "batch"
    /\ UNCHANGED <<S, coordVars, ckptVars, model, opt_steps, xs_shape, xs, theta, warped,
                   perfect_theta, loss>>

\* theta, warped = model(batch['fm'])
Forward ==
    /\ npc = "batch"
    /\ LET B == Len(batch)
           shp == LocalizationShape(<<B, Len(batch[1].fm), S, S, S>>)
       IN  IF ~ LayersAccept(S)
           THEN /\ npc' = "error"
                /\ UNCHANGED <<xs_shape, xs, theta, warped>>
           ELSE IF ~ (Cardinality({shp[3], shp[4], shp[5]}) = 1 /\ shp[3] = model.S0)
           THEN /\ npc' = "assert_failed"
                /\ xs_shape' = shp
                /\ UNCHANGED <<xs, theta, warped>>
           ELSE /\ xs_shape' = shp
                /\ \E f \in [1..B -> FeatureDraws] :
                     /\ xs' = f
                     /\ theta' = MkSeq(LAMBDA b : View34(Linear(model, f[b])), B)
                /\ warped' = MkSeq(LAMBDA b :
                                [channels |-> SampledChannels(batch[b].fm),
                                 theta |-> theta'[b]], B)
                /\ npc' = "forward"
    /\ UNCHANGED <<S, coordVars, ckptVars, model, opt_steps, batch, perfect_theta, loss>>

\* perfect_theta = torch.stack([...])[:, :3]; loss = ((theta-perfect_theta)**2).sum()
ComputeLoss ==
    /\ npc = "forward"
    /\ perfect_theta' =
         MkSeq(LAMBDA b : DropLastRow(get_perfect_transform_torch_coords(S, batch[b])),
               Len(batch))
    /\ loss' = SumError(theta, perfect_theta')
    /\ npc' = "loss"
    /\ UNCHANGED <<S, coordVars, ckptVars, model, opt_steps, batch, xs_shape, xs, theta, warped>>

\* loss.backward(); opt.step()
OptStep ==
    /\ npc = "loss"
    /\ opt_steps < MaxSteps
    /\ model' = Stepped(model, theta, perfect_theta, xs)
    /\ opt_steps' = opt_steps + 1
    /\ npc' = "idle"
    /\ batch' = None
    /\ xs_shape' = None
    /\ xs' = None
    /\ theta' = None
    /\ warped' = None
    /\ perfect_theta' = None
    /\ loss' = None
    /\ UNCHANGED <<S, coordVars, ckptVars>>

\* the model is only examined (cells 01698b1f, 60bd7108): no optimizer step
Examined ==
    /\ npc \in {"forward", "loss"}
    /\ npc' = "idle"
    /\ batch' = None
    /\ xs_shape' = None
    /\ xs' = None
    /\ theta' = None
    /\ warped' = None
    /\ perfect_theta' = None
    /\ loss' = None
    /\ UNCHANGED <<S, coordVars, ckptVars, model, opt_steps>>

NextNet ==
    \/ MakeNet
    \/ LoadBatch
    \/ Forward
    \/ ComputeLoss
    \/ OptStep
    \/ Examined

SpecNet == InitNet /\ [][NextNet]_vars

IdentityTheta == DropLastRow(Eye(4))
Ran == npc \in {"forward", "loss"}

\* the 12 entries of a 3x4 matrix in row-major order
Entries(mat) == Flat12(LAMBDA i : mat[((i - 1) \div 4) + 1][((i - 1) % 4) + 1])

\* C3: the loss is the sum over the samples and the 12 entries of each of
\* the squared difference between theta and the 3x4 perfect transform; it is
\* never negative, and it is zero exactly when theta equals the target.
C3_LossIsSumOfSquares ==
    npc = "loss" =>
        /\ Len(perfect_theta) = Len(theta)
        /\ \A b \in 1..Len(theta) : Len(perfect_theta[b]) = 3 /\ Len(perfect_theta[b][1]) = 4
        /\ loss = RSum(MkSeq(LAMBDA b :
                     RSum(Flat12(LAMBDA i :
                        LET e == RSub(Entries(theta[b])[i], Entries(perfect_theta[b])[i])
                        IN  RMul(e, e))),
                     Len(theta)))
        /\ RLeq(RZero, loss)
        /\ (loss = RZero <=> theta = perfect_theta)

C3_Witness ==
    /\ npc = "loss"
    /\ Len(batch) >= 2
    /\ loss = RZero

\* C4: 'fm' is the fixed volume followed by the moving volume, and forward
\* resamples, with the predicted theta, one channel per sample: the moving
\* volume.
C4_ForwardWarpsMoving ==
    Ran =>
        \A b \in 1..Len(batch) :
            /\ batch[b].fm = <<batch[b].fixed[1], batch[b].moving[1]>>
            /\ Len(warped[b].channels) = 1
            /\ warped[b].channels[1] = batch[b].moving[1]
            /\ warped[b].theta = theta[b]

C4_Witness ==
    /\ npc = "forward"
    /\ batch[1].fixed # batch[1].moving
    /\ warped[1].channels # batch[1].fixed

\* C5: before any optimizer step the model returns, whatever the
\* localization features are, the identity affine for every sample, and the
\* warped output shows each voxel of the moving channel in place.
C5_FreshNetIsIdentity ==
    (Ran /\ opt_steps = 0) =>
        /\ Len(theta) = Len(batch)
        /\ \A b \in 1..Len(batch) :
             /\ theta[b] = IdentityTheta
             /\ warped[b].channels = batch[b].moving
             /\ \A v \in Voxels(S) :
                  TorchAffineSource(S, warped[b].theta, v) = VoxPos(v)

C5_Witness ==
    /\ npc = "forward"
    /\ opt_steps = 0
    /\ Len(batch) >= 2
    /\ xs[1] # xs[2]
    /\ batch[1].fm # batch[2].fm

\* C7: when every layer of the localization stack accepts the side S, its
\* output has spatial size S0 = ((S-4)//2 - 2)//2 - 2 in all three
\* dimensions; the assertion of forward never fails, and the flattened
\* features are the loc_C3 * S0**3 inputs of the linear regressor.
C7_LocalizationShape ==
    /\ LayersAccept(S) => LocalizationSizes(S)[5] = ((S - 4) \div 2 - 2) \div 2 - 2
    /\ npc # "assert_failed"
    /\ Ran =>
         /\ xs_shape = <<Len(batch), loc_C3, model.S0, model.S0, model.S0>>
         /\ xs_shape[2] * xs_shape[3] * xs_shape[4] * xs_shape[5] = model.in_features
         /\ Len(theta) = Len(batch)

C7_Witness ==
    /\ npc = "forward"
    /\ S = NotebookS
    /\ xs_shape = <<Len(batch), 32, 12, 12, 12>>

-----------------------------------------------------------------------------
(* The save and load cells, 79b65be5 and a69f0002 *)

\* f'model_{run_id}.pth'
ModelPath(id) == "model_" \o id \o ".pth"

\* os.path.exists(path)
Exists(path) == files[path].exists

\* model.state_dict()
StateDict(net) == [weight |-> net.weight, bias |-> net.bias]

\* model.load_state_dict(sd)
LoadStateDict(net, sd) == [net EXCEPT !.weight = sd.weight, !.bias = sd.bias]

\* a checkpoint left by an earlier session
EarlierCheckpoint(side) == [exists |-> TRUE, state_dict |-> StateDict(AffineNet(side))]

InitCkpt ==
    /\ S = NotebookS
    /\ CoordsIdle
    /\ model = AffineNet(S)
    /\ opt_steps = 0
    /\ batch = None
    /\ xs_shape = None
    /\ xs = None
    /\ theta = None
    /\ warped = None
    /\ perfect_theta = None
    /\ loss = None
    /\ npc = "idle"
    /\ files \in [CheckpointPaths -> {NoFile, EarlierCheckpoint(S)}]
    /\ run_id = Undefined
    /\ save_path = Undefined
    /\ load_path = Undefined
    /\ last = NoRun

\* one iteration of the training loop, from the batch to opt.step()
TrainIteration ==
    /\ npc = "idle"
    /\ opt_steps < MaxSteps
    /\ \E b \in Batches(S) :
         \E f \in [1..Len(b) -> FeatureDraws] :
           LET th == MkSeq(LAMBDA k : View34(Linear(model, f[k])), Len(b))
               pf == MkSeq(LAMBDA k :
                        DropLastRow(get_perfect_transform_torch_coords(S, b[k])), Len(b))
           IN  model' = Stepped(model, th, pf, f)
    /\ opt_steps' = opt_steps + 1
    /\ UNCHANGED <<S, coordVars, ckptVars, batch, xs_shape, xs, theta, warped,
                   perfect_theta, loss, npc>>

\* cell 79b65be5
SaveCell ==
    /\ npc = "idle"
    /\ run_id' = "002"
    /\ save_path' = ModelPath(run_id')
    /\ IF Exists(save_path')
       THEN /\ last' = [cell |-> "save", raised |-> "change run_id before saving"]
            /\ UNCHANGED files
       ELSE /\ files' = [files EXCEPT ![save_path'] =
                            [exists |-> TRUE, state_dict |-> StateDict(model)]]
            /\ last' = [cell |-> "save", raised |-> "none"]
    /\ UNCHANGED <<S, coordVars, netVars, load_path>>

\* cell a69f0002
LoadCell ==
    /\ npc = "idle"
    /\ run_id' = "001"
    /\ load_path' = ModelPath(run_id')
    /\ LET ran(raised, called) ==
               [cell |-> "load", raised |-> raised, torch_load_called |-> called,
                load_path_existed |-> Exists(load_path'), model_before |-> model,
                model_after |-> model']
       IN  IF save_path = Undefined
           THEN \* not os.path.exists(save_path): save_path is not defined
                /\ UNCHANGED model
                /\ last' = ran("NameError", FALSE)
           ELSE IF ~ Exists(save_path)
           THEN /\ UNCHANGED model
                /\ last' = ran("model not found", FALSE)
           ELSE IF ~ Exists(load_path')
           THEN \* torch.load(load_path) opens a file that is not there
                /\ UNCHANGED model
                /\ last' = ran("FileNotFoundError", TRUE)
           ELSE /\ model' = LoadStateDict(model, files[load_path'].state_dict)
                /\ last' = ran("none", TRUE)
    /\ UNCHANGED <<S, coordVars, files, save_path, opt_steps, batch, xs_shape, xs,
                   theta, warped, perfect_theta, loss, npc>>

NextCkpt ==
    \/ TrainIteration
    \/ SaveCell
    \/ LoadCell

SpecCkpt == InitCkpt /\ [][NextCkpt]_vars

\* C8: the load cell calls torch.load(load_path) only if a file exists at
\* load_path; when there is none, torch.load is not reached and the model's
\* weights are unchanged, whatever cells were run before.  (The claim adds
\* that the exception raised is the cell's own 'model ... not found'.)
C8_LoadOnlyIfCheckpointExists ==
    last.cell = "load" =>
        /\ last.torch_load_called => last.load_path_existed
        /\ ~ last.load_path_existed => last.model_after = last.model_before

====
